---- MODULE Spec2Model ----
(***************************************************************************)
(* Model of the NC DMV appointment monitor (src/main.py).                  *)
(*                                                                         *)
(* monitor_categories discovers the closest locations once                 *)
(* (fetch_nearby_locations), then loops forever: one check_category task   *)
(* per category run concurrently under asyncio.gather, a webhook           *)
(* (send_ha_webhook) for every category whose result is non-empty, and a   *)
(* sleep.                                                                  *)
(*                                                                         *)
(* A listed page element (.QflowObjectItem) is a record                    *)
(*   inner    : the element has a div[title] child                         *)
(*   name_div : that child has a first div                                 *)
(*   name     : text_content() of the name div, a sequence of characters   *)
(*   addr_div : the child has a .form-control-child                        *)
(*   address  : text_content() of the address div                          *)
(*   marker   : the .No-Availability element: absent, hidden or visible    *)
(*   raises   : a query on the element raises (detached element, text      *)
(*              content None, remote error)                                *)
(***************************************************************************)
EXTENDS Integers, Sequences, FiniteSets, TLC

VARIABLES
    pc,                   \* position of monitor_categories
    fetch_page,           \* all_locations of fetch_nearby_locations
    locations_list,       \* the list fetch_nearby_locations returned
    MONITORED_LOCATIONS,  \* the global set of monitored names
    location_info,        \* name -> [address, rank]
    task,                 \* position of each check_category task
    session,              \* the remote browser session of each task
    all_locations,        \* all_locations of each check_category task
    results,              \* the gathered result of each task
    i,                    \* index of the for loop over CATEGORIES
    sent,                 \* webhook requests posted in this cycle, per category
    post_outcome,         \* outcome of the last webhook request
    webhook_ret,          \* what the last send_ha_webhook call returned
    cycles,               \* iterations of the while loop started so far
    found,                \* per category, the cycles whose result was non-empty
    notified              \* per category, the webhook requests posted so far

vars == <<pc, fetch_page, locations_list, MONITORED_LOCATIONS, location_info,
          task, session, all_locations, results, i, sent, post_outcome,
          webhook_ret, cycles, found, notified>>

-----------------------------------------------------------------------------
(* Bounds of the model *)

\* longest listing the discovery page offers
MaxUpstream == 3
\* longest listing a category page offers
MaxListing == 2
\* iterations of the monitoring loop that are followed
MaxCycles == 2
\* longest listing of a category page when a single cycle's probes are followed
MaxLongListing == 3

-----------------------------------------------------------------------------
(* Configuration *)

\* MAX_LOCATIONS = int(os.getenv("MAX_LOCATIONS", "25")), here configured to 2
MAX_LOCATIONS == 2

\* CATEGORIES = {"Knowledge Test": 6, "Permits": 9}, in insertion order
CATEGORIES == <<"Knowledge Test", "Permits">>

CategoryNames == {CATEGORIES[k] : k \in 1..Len(CATEGORIES)}

Min(a, b) == IF a <= b THEN a ELSE b

-----------------------------------------------------------------------------
(* Text: str.strip() *)

Blank == " "

RECURSIVE LStrip(_)
LStrip(s) == IF s # <<>> /\ Head(s) = Blank THEN LStrip(Tail(s)) ELSE s

RECURSIVE RStrip(_)
RStrip(s) ==
    IF s # <<>> /\ s[Len(s)] = Blank THEN RStrip(SubSeq(s, 1, Len(s) - 1)) ELSE s

Strip(s) == RStrip(LStrip(s))

-----------------------------------------------------------------------------
(* Page elements *)

Item(name, address, marker) ==
    [inner |-> TRUE, name_div |-> TRUE, name |-> name, addr_div |-> TRUE,
     address |-> address, marker |-> marker, raises |-> FALSE]

NoInner == [Item(<<"A">>, <<"p">>, "absent") EXCEPT !.inner = FALSE]
NoAddrDiv == [Item(<<"B">>, <<"q">>, "absent") EXCEPT !.addr_div = FALSE]
Raising == [Item(<<"A">>, <<"p">>, "absent") EXCEPT !.raises = TRUE]

\* what the discovery page may list
UpstreamItems ==
    { Item(<<"A">>, <<"p">>, "absent"),
      Item(<<Blank, "B">>, <<"q", Blank>>, "visible"),
      Item(<<"C">>, <<Blank>>, "absent"),
      NoInner, NoAddrDiv, Raising }

\* what a category page may list
ListingItems ==
    { Item(<<"A">>, <<"p">>, "absent"),
      Item(<<"A">>, <<"p">>, "visible"),
      Item(<<"B", Blank>>, <<"q">>, "hidden"),
      Raising }

SeqsUpTo(S, n) == UNION {[1..k -> S] : k \in 0..n}

UpstreamPages == SeqsUpTo(UpstreamItems, MaxUpstream)
ListingPages == SeqsUpTo(ListingItems, MaxListing)
LongListingPages == SeqsUpTo(ListingItems, MaxLongListing)

-----------------------------------------------------------------------------
(* fetch_nearby_locations *)

\* variant: the slice is missing
TruncateNothing(page) == page

\* all_locations[:MAX_LOCATIONS]
Truncate(page) == SubSeq(page, 1, Min(Len(page), MAX_LOCATIONS))

\* lines 131-147: the entry yields a location
ValidLocation(e) ==
    /\ ~e.raises
    /\ e.inner
    /\ e.name_div
    /\ e.addr_div
    /\ Strip(e.name) # <<>>
    /\ Strip(e.address) # <<>>

\* variant: enumerate without its start argument
RankOfZeroBased(idx) == idx - 1

\* rank of the entry at position idx of the enumerated window
RankOf(idx) == idx

\* variant: no try around the loop body, one raising entry ends the scan in
\* the handler of line 164
RECURSIVE ParseLocationsAborting(_, _)
ParseLocationsAborting(window, n) ==
    IF n = 0 \/ \E k \in 1..Len(window) : window[k].raises THEN <<>>
    ELSE LET rest == ParseLocationsAborting(window, n - 1)
             e == window[n]
         IN IF ValidLocation(e)
            THEN Append(rest, [name |-> Strip(e.name),
                               address |-> Strip(e.address),
                               rank |-> RankOf(n)])
            ELSE rest

\* the for loop of lines 128-159 up to position n of the window
RECURSIVE ParseLocations(_, _)
ParseLocations(window, n) ==
    IF n = 0 THEN <<>>
    ELSE LET rest == ParseLocations(window, n - 1)
             e == window[n]
         IN IF ValidLocation(e)
            THEN Append(rest, [name |-> Strip(e.name),
                               address |-> Strip(e.address),
                               rank |-> RankOf(n)])
            ELSE rest

fetch_nearby_locations(page) ==
    LET locations_to_process == Truncate(page)
    IN ParseLocations(locations_to_process, Len(locations_to_process))

-----------------------------------------------------------------------------
(* monitor_categories, lines 289-292: the monitored set and the directory *)

NoInfo == [n \in {} |-> 0]

\* MONITORED_LOCATIONS.add(loc["name"])
AddMonitored(monitored, name) == monitored \cup {name}

\* variant: the dict is made anew for each location
SetInfoAnew(info, loc) ==
    [n \in {loc.name} |-> [address |-> loc.address, rank |-> loc.rank]]

\* location_info[loc["name"]] = {"address": ..., "rank": ...}
SetInfo(info, loc) ==
    [n \in DOMAIN info \cup {loc.name} |->
        IF n = loc.name THEN [address |-> loc.address, rank |-> loc.rank]
        ELSE info[n]]

RECURSIVE BuildMonitored(_, _)
BuildMonitored(list, n) ==
    IF n = 0 THEN {} ELSE AddMonitored(BuildMonitored(list, n - 1), list[n].name)

RECURSIVE BuildInfo(_, _)
BuildInfo(list, n) ==
    IF n = 0 THEN NoInfo ELSE SetInfo(BuildInfo(list, n - 1), list[n])

-----------------------------------------------------------------------------
(* check_category, lines 224-260 *)

\* variant: the membership test is missing
IsMonitoredAny(name, monitored) == TRUE

\* line 241: location_name not in MONITORED_LOCATIONS -> continue
IsMonitored(name, monitored) == name \in monitored

\* variant: any marker counts as no availability, visible or not
ShowsAvailabilityUnmarked(e) == e.marker = "absent"

\* lines 244-253: no marker, or a marker that is not visible
ShowsAvailability(e) == e.marker = "absent" \/ e.marker = "hidden"

\* lines 230-257: the entry is appended to locations_with_availability
Reported(e, monitored) ==
    /\ ~e.raises
    /\ e.inner
    /\ e.name_div
    /\ IsMonitored(Strip(e.name), monitored)
    /\ ShowsAvailability(e)

RECURSIVE CheckLocations(_, _, _)
CheckLocations(window, n, monitored) ==
    IF n = 0 THEN <<>>
    ELSE LET rest == CheckLocations(window, n - 1, monitored)
         IN IF Reported(window[n], monitored)
            THEN Append(rest, Strip(window[n].name))
            ELSE rest

\* variant: the slice of line 225 is missing
check_category_unsliced(page, monitored) ==
    CheckLocations(page, Len(page), monitored)

check_category(page, monitored) ==
    LET locations_to_check == Truncate(page)
    IN CheckLocations(locations_to_check, Len(locations_to_check), monitored)

\* variant: the failure empties the slot of every task
FailedProbeAll(res, c) == [d \in DOMAIN res |-> <<>>]

\* lines 262-264: the result slots once the task of category c has failed
FailedProbe(res, c) == [res EXCEPT ![c] = <<>>]

-----------------------------------------------------------------------------
(* monitor_categories, lines 314-320, and send_ha_webhook, lines 43-55 *)

\* variant: the key is ignored, the order of arrival kept
InsertAtEnd(sorted, x, info) == Append(sorted, x)

\* sorted(names, key=rank): Python's sort is stable
RECURSIVE InsertByRank(_, _, _)
InsertByRank(sorted, x, info) ==
    IF sorted = <<>> THEN <<x>>
    ELSE IF info[Head(sorted)].rank <= info[x].rank
         THEN <<Head(sorted)>> \o InsertByRank(Tail(sorted), x, info)
         ELSE <<x>> \o sorted

RECURSIVE SortByRank(_, _, _)
SortByRank(names, n, info) ==
    IF n = 0 THEN <<>>
    ELSE InsertByRank(SortByRank(names, n - 1, info), names[n], info)

\* variant: a list of pairs instead of a dict, duplicates kept
DictKeysKeepAll(names, n) == SubSeq(names, 1, n)

\* the keys of {loc_name: ... for loc_name in names}: first occurrence, in order
RECURSIVE DictKeys(_, _)
DictKeys(names, n) ==
    IF n = 0 THEN <<>>
    ELSE LET rest == DictKeys(names, n - 1)
         IN IF \E k \in 1..Len(rest) : rest[k] = names[n]
            THEN rest ELSE Append(rest, names[n])

\* lines 314-320: the keys of webhook_locations_info, in insertion order
webhook_locations_info(available_locations, info) ==
    LET sorted_locations ==
            SortByRank(available_locations, Len(available_locations), info)
    IN DictKeys(sorted_locations, Len(sorted_locations))

\* lines 43-46
locations_data(keys, info) ==
    LET ordered == SortByRank(keys, Len(keys), info)
    IN [k \in 1..Len(ordered) |->
           [name |-> ordered[k],
            address |-> info[ordered[k]].address,
            rank |-> info[ordered[k]].rank]]

None == <<"None">>

\* lines 48-55, the timestamp left out
Payload(category, keys, info) ==
    LET data == locations_data(keys, info)
    IN [category |-> category,
        location_count |-> Len(data),
        locations |-> data,
        booking_url |-> "https://skiptheline.ncdot.gov/",
        closest_location |-> IF data # <<>> THEN data[1].name ELSE None]

\* what session.post may do: a response, an aiohttp.ClientError, a timeout
PostOutcomes ==
    {[kind |-> "response", status |-> s] : s \in {200, 204, 404, 500}}
        \cup {[kind |-> "client_error", status |-> 0],
              [kind |-> "timeout", status |-> 0]}

NoPost == [kind |-> "none", status |-> 0]

\* variant: any response counts as delivered
WebhookReturnAnyResponse(o) ==
    IF o.kind = "response" THEN "True" ELSE "False"

\* variant: the last except clause is missing, a timeout is not caught
WebhookReturnUncaught(o) ==
    IF o.kind = "response"
    THEN IF o.status = 200 THEN "True" ELSE "False"
    ELSE IF o.kind = "client_error" THEN "False"
    ELSE "raised"

\* lines 57-71
WebhookReturn(o) ==
    IF o.kind = "response"
    THEN IF o.status = 200 THEN "True" ELSE "False"
    ELSE IF o.kind = "client_error" THEN "False"
    ELSE "False"

\* variant: the emptiness test is missing
HasAvailabilityAlways(available_locations) == TRUE

\* variant: a category that was notified in an earlier cycle is not notified
\* again
HasAvailabilityOnce(available_locations) ==
    available_locations # <<>> /\ cycles = 1

\* line 308: if available_locations
HasAvailability(available_locations) == available_locations # <<>>

-----------------------------------------------------------------------------
(* The state machine *)

Init ==
    /\ pc = "start"
    /\ fetch_page = <<>>
    /\ locations_list = <<>>
    /\ MONITORED_LOCATIONS = {}
    /\ location_info = NoInfo
    /\ task = [c \in CategoryNames |-> "idle"]
    /\ session = [c \in CategoryNames |-> "none"]
    /\ all_locations = [c \in CategoryNames |-> <<>>]
    /\ results = [c \in CategoryNames |-> <<>>]
    /\ i = 0
    /\ sent = [c \in CategoryNames |-> <<>>]
    /\ post_outcome = NoPost
    /\ webhook_ret = "None"
    /\ cycles = 0
    /\ found = [c \in CategoryNames |-> 0]
    /\ notified = [c \in CategoryNames |-> 0]

cycle_vars == <<task, session, all_locations, results, i, sent, post_outcome,
                webhook_ret, cycles, found, notified>>
directory_vars == <<locations_list, MONITORED_LOCATIONS, location_info>>

\* lines 79-121: the discovery page is reached and lists at least one element
FetchLoad ==
    /\ pc = "start"
    /\ \E page \in UpstreamPages :
          /\ page # <<>>
          /\ fetch_page' = page
    /\ pc' = "fetch_listed"
    /\ UNCHANGED <<directory_vars, cycle_vars>>

\* lines 122-162: the listed elements are parsed and the list is returned
FetchReturn ==
    /\ pc = "fetch_listed"
    /\ locations_list' = fetch_nearby_locations(fetch_page)
    /\ pc' = "fetch_return"
    /\ UNCHANGED <<fetch_page, MONITORED_LOCATIONS, location_info, cycle_vars>>

\* lines 164-166: the remote interaction fails (connection, navigation, a wait
\* that times out, the page listing nothing, browser.close())
FetchExcept ==
    /\ pc \in {"start", "fetch_listed"}
    /\ locations_list' = <<>>
    /\ pc' = "fetch_except"
    /\ UNCHANGED <<fetch_page, MONITORED_LOCATIONS, location_info, cycle_vars>>

\* variant: the return after the error log is missing
NoLocationsContinue ==
    /\ pc \in {"fetch_return", "fetch_except"}
    /\ locations_list = <<>>
    /\ pc' = "loop"
    /\ fetch_page' = <<>>
    /\ UNCHANGED <<directory_vars, cycle_vars>>

\* lines 285-287: no location, the function returns
NoLocations ==
    /\ pc \in {"fetch_return", "fetch_except"}
    /\ locations_list = <<>>
    /\ pc' = "terminated"
    /\ fetch_page' = <<>>
    /\ UNCHANGED <<directory_vars, cycle_vars>>

\* lines 289-295: the monitored set and the directory are built
Setup ==
    /\ pc \in {"fetch_return", "fetch_except"}
    /\ locations_list # <<>>
    /\ MONITORED_LOCATIONS' =
          MONITORED_LOCATIONS
              \cup BuildMonitored(locations_list, Len(locations_list))
    /\ location_info' = BuildInfo(locations_list, Len(locations_list))
    /\ pc' = "loop"
    /\ fetch_page' = <<>>
    /\ UNCHANGED <<locations_list, cycle_vars>>

\* line 298: one check_category task per category; the values of the last
\* iteration are dead
Launch ==
    /\ pc = "loop"
    /\ cycles < MaxCycles
    /\ cycles' = cycles + 1
    /\ task' = [c \in CategoryNames |-> "created"]
    /\ session' = [c \in CategoryNames |-> "none"]
    /\ all_locations' = [c \in CategoryNames |-> <<>>]
    /\ results' = [c \in CategoryNames |-> <<>>]
    /\ sent' = [c \in CategoryNames |-> <<>>]
    /\ i' = 0
    /\ post_outcome' = NoPost
    /\ webhook_ret' = "None"
    /\ pc' = "gather"
    /\ UNCHANGED <<fetch_page, directory_vars, found, notified>>

\* lines 174-180: the task opens its browser session
ProbeConnect(c) ==
    /\ pc = "gather"
    /\ task[c] = "created"
    /\ task' = [task EXCEPT ![c] = "open"]
    /\ session' = [session EXCEPT ![c] = "open"]
    /\ UNCHANGED <<pc, fetch_page, directory_vars, all_locations, results, i,
                   sent, post_outcome, webhook_ret, cycles, found, notified>>

\* variant: a reported name is taken out of the monitored set
ProbeReturnConsume(c) ==
    /\ pc = "gather"
    /\ task[c] = "open"
    /\ \E page \in ListingPages :
          /\ page # <<>>
          /\ all_locations' = [all_locations EXCEPT ![c] = page]
          /\ results' =
                [results EXCEPT ![c] = check_category(page, MONITORED_LOCATIONS)]
          /\ MONITORED_LOCATIONS' =
                {n \in MONITORED_LOCATIONS :
                    \A k \in 1..Len(results'[c]) : results'[c][k] # n}
    /\ task' = [task EXCEPT ![c] = "returned"]
    /\ session' = [session EXCEPT ![c] = "closed"]
    /\ UNCHANGED <<pc, fetch_page, locations_list, location_info, i, sent,
                   post_outcome, webhook_ret, cycles, found, notified>>

\* lines 182-260: the category page is reached and lists at least one element;
\* the listed elements are checked, the browser is closed, the list returned
ProbeReturn(c) ==
    /\ pc = "gather"
    /\ task[c] = "open"
    /\ \E page \in ListingPages :
          /\ page # <<>>
          /\ all_locations' = [all_locations EXCEPT ![c] = page]
          /\ results' =
                [results EXCEPT ![c] = check_category(page, MONITORED_LOCATIONS)]
    /\ task' = [task EXCEPT ![c] = "returned"]
    /\ session' = [session EXCEPT ![c] = "closed"]
    /\ UNCHANGED <<pc, fetch_page, directory_vars, i, sent, post_outcome,
                   webhook_ret, cycles, found, notified>>

\* lines 182-260 again, the category page listing up to MaxLongListing elements
ProbeReturnLong(c) ==
    /\ pc = "gather"
    /\ task[c] = "open"
    /\ \E page \in LongListingPages :
          /\ page # <<>>
          /\ all_locations' = [all_locations EXCEPT ![c] = page]
          /\ results' =
                [results EXCEPT ![c] = check_category(page, MONITORED_LOCATIONS)]
    /\ task' = [task EXCEPT ![c] = "returned"]
    /\ session' = [session EXCEPT ![c] = "closed"]
    /\ UNCHANGED <<pc, fetch_page, directory_vars, i, sent, post_outcome,
                   webhook_ret, cycles, found, notified>>

\* variant: no context manager around the session, nothing releases it
ProbeExceptLeak(c) ==
    /\ pc = "gather"
    /\ task[c] \in {"created", "open"}
    /\ task' = [task EXCEPT ![c] = "except"]
    /\ results' = FailedProbe(results, c)
    /\ UNCHANGED <<pc, fetch_page, directory_vars, session, all_locations, i,
                   sent, post_outcome, webhook_ret, cycles, found, notified>>

\* lines 262-264: the probe fails (connection, navigation, a wait that times
\* out, the page listing nothing, browser.close()); browser.close() is not
\* reached, the playwright context manager exits
ProbeExcept(c) ==
    /\ pc = "gather"
    /\ task[c] \in {"created", "open"}
    /\ task' = [task EXCEPT ![c] = "except"]
    /\ results' = FailedProbe(results, c)
    /\ session' = [session EXCEPT ![c] = IF @ = "open" THEN "dropped" ELSE @]
    /\ UNCHANGED <<pc, fetch_page, directory_vars, all_locations, i, sent,
                   post_outcome, webhook_ret, cycles, found, notified>>

\* variant: the first task that is done ends the wait
AnyDone == \E c \in CategoryNames : task[c] \in {"returned", "except"}

\* line 299: gather waits for every task
AllDone == \A c \in CategoryNames : task[c] \in {"returned", "except"}

\* line 299: every task is done, gather returns and the tasks' locals are
\* gone. check_category catches every Exception and returns a list, so no
\* slot holds an exception object and the branch of lines 302-304 is not taken
Gather ==
    /\ pc = "gather"
    /\ AllDone
    /\ pc' = "for"
    /\ i' = 1
    /\ all_locations' = [c \in CategoryNames |-> <<>>]
    /\ found' = [c \in CategoryNames |->
                    IF results[c] # <<>> THEN found[c] + 1 ELSE found[c]]
    /\ UNCHANGED <<fetch_page, directory_vars, task, session, results, sent,
                   post_outcome, webhook_ret, cycles, notified>>

\* lines 330-331: nothing available for the category
NoAvailability ==
    /\ pc = "for"
    /\ i <= Len(CATEGORIES)
    /\ ~HasAvailability(results[CATEGORIES[i]])
    /\ i' = i + 1
    /\ UNCHANGED <<pc, fetch_page, directory_vars, task, session, all_locations,
                   results, sent, post_outcome, webhook_ret, cycles, found, notified>>

\* lines 308-329: the payload is built and posted once
Notify ==
    /\ pc = "for"
    /\ i <= Len(CATEGORIES)
    /\ HasAvailability(results[CATEGORIES[i]])
    /\ \E keys \in {webhook_locations_info(results[CATEGORIES[i]],
                                            location_info)} :
          sent' = [sent EXCEPT ![CATEGORIES[i]] =
                      Append(@, Payload(CATEGORIES[i], keys, location_info))]
    /\ \E o \in PostOutcomes :
          /\ post_outcome' = o
          /\ webhook_ret' = WebhookReturn(o)
          /\ pc' = IF WebhookReturn(o) = "raised" THEN "crashed" ELSE "for"
    /\ notified' = [notified EXCEPT ![CATEGORIES[i]] = @ + 1]
    /\ i' = i + 1
    /\ UNCHANGED <<fetch_page, directory_vars, task, session, all_locations,
                   results, cycles, found>>

\* lines 333-334: the for loop is over, the coroutine sleeps
EndCycle ==
    /\ pc = "for"
    /\ i > Len(CATEGORIES)
    /\ pc' = "sleep"
    /\ UNCHANGED <<fetch_page, directory_vars, cycle_vars>>

\* variant: the loop body ends with a return after the sleep
WakeReturns ==
    /\ pc = "sleep"
    /\ pc' = "terminated"
    /\ UNCHANGED <<fetch_page, directory_vars, cycle_vars>>

\* line 334 -> line 297: the sleep is over
Wake ==
    /\ pc = "sleep"
    /\ pc' = "loop"
    /\ UNCHANGED <<fetch_page, directory_vars, cycle_vars>>

\* the coroutine is suspended at an await: inside fetch_nearby_locations,
\* at gather, inside send_ha_webhook, in the sleep
Awaiting ==
    \/ pc \in {"start", "fetch_listed", "gather", "sleep"}
    \/ /\ pc = "for"
       /\ i <= Len(CATEGORIES)
       /\ HasAvailability(results[CATEGORIES[i]])

\* lines 338-341: the process is interrupted; asyncio.run cancels the main
\* task, which raises CancelledError at its await. Cancelling gather cancels
\* the tasks that are not done and waits for them; everywhere else the
\* coroutine ends at once and KeyboardInterrupt is caught at line 340
Cancel ==
    /\ Awaiting
    /\ pc' = IF pc = "gather" THEN "cancelling" ELSE "stopped"
    /\ fetch_page' = <<>>
    /\ all_locations' = [c \in CategoryNames |-> <<>>]
    /\ results' = [c \in CategoryNames |-> <<>>]
    /\ i' = 0
    /\ UNCHANGED <<directory_vars, task, session, sent, post_outcome,
                   webhook_ret, cycles, found, notified>>

\* variant: the cancelled task ends without leaving the playwright context
\* manager, its session stays open
TaskCancelledLeak(c) ==
    /\ pc = "cancelling"
    /\ task[c] \in {"created", "open"}
    /\ task' = [task EXCEPT ![c] = "cancelled"]
    /\ UNCHANGED <<pc, fetch_page, directory_vars, session, all_locations,
                   results, i, sent, post_outcome, webhook_ret, cycles, found,
                   notified>>

\* lines 174-264: CancelledError is not an Exception, it leaves the task
\* through the playwright context manager; browser.close() is not reached
TaskCancelled(c) ==
    /\ pc = "cancelling"
    /\ task[c] \in {"created", "open"}
    /\ task' = [task EXCEPT ![c] = "cancelled"]
    /\ session' = [session EXCEPT ![c] = IF @ = "open" THEN "dropped" ELSE @]
    /\ UNCHANGED <<pc, fetch_page, directory_vars, all_locations, results, i,
                   sent, post_outcome, webhook_ret, cycles, found, notified>>

\* lines 202-217: CancelledError raised inside one of the two bare except
\* blocks is swallowed; the probe runs on to its return or to its failure
TaskSwallows(c) ==
    /\ pc = "cancelling"
    /\ task[c] = "open"
    /\ \E completes \in BOOLEAN :
          /\ task' = [task EXCEPT
                         ![c] = IF completes THEN "returned" ELSE "except"]
          /\ session' = [session EXCEPT
                            ![c] = IF completes THEN "closed" ELSE "dropped"]
    /\ UNCHANGED <<pc, fetch_page, directory_vars, all_locations, results, i,
                   sent, post_outcome, webhook_ret, cycles, found, notified>>

AllEnded ==
    \A c \in CategoryNames : task[c] \in {"returned", "except", "cancelled"}

\* lines 339-341: every task has ended, the main task ends cancelled and
\* KeyboardInterrupt is caught
Stop ==
    /\ pc = "cancelling"
    /\ AllEnded
    /\ pc' = "stopped"
    /\ UNCHANGED <<fetch_page, directory_vars, cycle_vars>>

Next ==
    \/ FetchLoad
    \/ FetchReturn
    \/ FetchExcept
    \/ NoLocations
    \/ Setup
    \/ Launch
    \/ \E c \in CategoryNames : ProbeConnect(c)
    \/ \E c \in CategoryNames : ProbeReturn(c)
    \/ \E c \in CategoryNames : ProbeExcept(c)
    \/ Gather
    \/ NoAvailability
    \/ Notify
    \/ EndCycle
    \/ Wake
    \/ Cancel
    \/ \E c \in CategoryNames : TaskCancelled(c)
    \/ \E c \in CategoryNames : TaskSwallows(c)
    \/ Stop

Spec == Init /\ [][Next]_vars

\* the first cycle at line 299, after any discovery that returned a location:
\* every task has opened its session
InitProbe ==
    /\ pc = "gather"
    /\ fetch_page = <<>>
    /\ \E page \in UpstreamPages :
          /\ fetch_nearby_locations(page) # <<>>
          /\ locations_list = fetch_nearby_locations(page)
    /\ MONITORED_LOCATIONS = BuildMonitored(locations_list, Len(locations_list))
    /\ location_info = BuildInfo(locations_list, Len(locations_list))
    /\ task = [c \in CategoryNames |-> "open"]
    /\ session = [c \in CategoryNames |-> "open"]
    /\ all_locations = [c \in CategoryNames |-> <<>>]
    /\ results = [c \in CategoryNames |-> <<>>]
    /\ i = 0
    /\ sent = [c \in CategoryNames |-> <<>>]
    /\ post_outcome = NoPost
    /\ webhook_ret = "None"
    /\ cycles = 1
    /\ found = [c \in CategoryNames |-> 0]
    /\ notified = [c \in CategoryNames |-> 0]

NextProbe ==
    \/ \E c \in CategoryNames : ProbeReturnLong(c)
    \/ \E c \in CategoryNames : ProbeExcept(c)

\* the probes of one cycle, over longer category pages
SpecProbe == InitProbe /\ [][NextProbe]_vars

\* line 297, while True: past MaxCycles counted iterations the count starts
\* again, so that the loop can be followed for ever
CountAnew ==
    /\ pc = "loop"
    /\ cycles = MaxCycles
    /\ cycles' = 0
    /\ found' = [c \in CategoryNames |-> 0]
    /\ notified' = [c \in CategoryNames |-> 0]
    /\ UNCHANGED <<pc, fetch_page, directory_vars, task, session, all_locations,
                   results, i, sent, post_outcome, webhook_ret>>

\* line 297 reached for the first time, after any discovery that returned a
\* location
InitLoop ==
    /\ pc = "loop"
    /\ fetch_page = <<>>
    /\ \E page \in UpstreamPages :
          /\ fetch_nearby_locations(page) # <<>>
          /\ locations_list = fetch_nearby_locations(page)
    /\ MONITORED_LOCATIONS = BuildMonitored(locations_list, Len(locations_list))
    /\ location_info = BuildInfo(locations_list, Len(locations_list))
    /\ task = [c \in CategoryNames |-> "idle"]
    /\ session = [c \in CategoryNames |-> "none"]
    /\ all_locations = [c \in CategoryNames |-> <<>>]
    /\ results = [c \in CategoryNames |-> <<>>]
    /\ i = 0
    /\ sent = [c \in CategoryNames |-> <<>>]
    /\ post_outcome = NoPost
    /\ webhook_ret = "None"
    /\ cycles = 0
    /\ found = [c \in CategoryNames |-> 0]
    /\ notified = [c \in CategoryNames |-> 0]

\* every step of the loop but the external interrupt
Progress ==
    \/ Launch
    \/ \E c \in CategoryNames : ProbeConnect(c)
    \/ \E c \in CategoryNames : ProbeReturn(c)
    \/ \E c \in CategoryNames : ProbeExcept(c)
    \/ Gather
    \/ NoAvailability
    \/ Notify
    \/ EndCycle
    \/ Wake
    \/ \E c \in CategoryNames : TaskCancelled(c)
    \/ \E c \in CategoryNames : TaskSwallows(c)
    \/ Stop
    \/ CountAnew

\* lines 297-341: the loop and its interrupt
NextLoop ==
    \/ Progress
    \/ Cancel

\* the event loop runs every coroutine that is ready, and every remote wait
\* and the webhook request complete or time out
LiveSpec == InitLoop /\ [][NextLoop]_vars /\ WF_vars(Progress)

-----------------------------------------------------------------------------
(* Properties *)

\* the process was interrupted
Interrupted == pc \in {"cancelling", "stopped"}

KT == "Knowledge Test"
PM == "Permits"

\* the cycle's for loop is past category c
Processed(c) ==
    \/ pc = "sleep"
    \/ pc = "for" /\ \E k \in 1..Len(CATEGORIES) : CATEGORIES[k] = c /\ k < i

\* C1: within one cycle a failed probe counts as no availability for its own
\* category only: it has an empty result and no notification, while every
\* sibling that returned has the result computed from its own page and, when
\* that result is non-empty, has been notified once the cycle's loop is past it.
ProbeIsolation ==
    \A d \in CategoryNames :
        task[d] = "except" =>
            /\ results[d] = <<>>
            /\ sent[d] = <<>>
            /\ pc # "crashed"
            /\ \A c \in CategoryNames \ {d} :
                  task[c] = "returned" =>
                      /\ pc = "gather" =>
                            results[c] =
                                check_category(all_locations[c],
                                               MONITORED_LOCATIONS)
                      /\ (Processed(c) /\ results[c] # <<>>) => Len(sent[c]) = 1

\* the first category failed and the second was notified in the same cycle
ProbeIsolationWitness ==
    /\ pc = "sleep"
    /\ task[KT] = "except"
    /\ task[PM] = "returned"
    /\ results[PM] # <<>>
    /\ Len(sent[PM]) = 1

\* C2: every name a probe returns is monitored; a listed entry whose name is
\* not monitored is absent from the result whatever its marker shows.
ProbeSubset ==
    \A c \in CategoryNames :
        task[c] = "returned" =>
            /\ \A k \in 1..Len(results[c]) : results[c][k] \in MONITORED_LOCATIONS
            /\ \A k \in 1..Len(all_locations[c]) :
                  Strip(all_locations[c][k].name) \notin MONITORED_LOCATIONS =>
                      \A j \in 1..Len(results[c]) :
                          results[c][j] # Strip(all_locations[c][k].name)

\* a page lists an entry that is not monitored and shows availability, next
\* to a monitored one that is reported
ProbeSubsetWitness ==
    \E c \in CategoryNames :
        /\ task[c] = "returned"
        /\ results[c] # <<>>
        /\ \E k \in 1..Len(all_locations[c]) :
              /\ Strip(all_locations[c][k].name) \notin MONITORED_LOCATIONS
              /\ all_locations[c][k].marker # "visible"
              /\ ~all_locations[c][k].raises

\* C3: in a cycle a category gets exactly one webhook request when its result
\* is non-empty and none when it is empty (a failed probe included); no payload
\* is ever sent with an empty list.
OneWebhookPerAvailability ==
    \A c \in CategoryNames :
        /\ Len(sent[c]) <= 1
        /\ \A k \in 1..Len(sent[c]) :
              /\ sent[c][k].locations # <<>>
              /\ sent[c][k].category = c
        /\ (sent[c] # <<>> /\ ~Interrupted) => results[c] # <<>>
        /\ Processed(c) => Len(sent[c]) = (IF results[c] # <<>> THEN 1 ELSE 0)

\* a cycle ends with one request for a category and none for the other, whose
\* page was read and showed nothing
OneWebhookWitness ==
    /\ pc = "sleep"
    /\ Len(sent[KT]) = 1
    /\ task[PM] = "returned"
    /\ results[PM] = <<>>
    /\ sent[PM] = <<>>

\* the discovery has returned
Discovered == pc \notin {"start", "fetch_listed"}

\* C4: when discovery returns an empty sequence the orchestrator terminates:
\* no probe is launched, no session opened and no notification sent; once
\* terminated it stays terminated, and discovery is never run a second time.
\* (An interrupt during discovery stops the process with the list still empty.)
EmptyDiscoveryTerminates ==
    /\ [](Discovered /\ locations_list = <<>> =>
            /\ pc \in {"fetch_return", "fetch_except", "terminated", "stopped"}
            /\ cycles = 0
            /\ \A c \in CategoryNames :
                  /\ task[c] = "idle"
                  /\ session[c] = "none"
                  /\ sent[c] = <<>>)
    /\ [][pc = "terminated" => pc' = "terminated"]_vars
    /\ [][Discovered => (Discovered' /\ locations_list' = locations_list)]_vars

\* discovery returned nothing and the orchestrator terminated
EmptyDiscoveryWitness ==
    /\ pc = "terminated"
    /\ locations_list = <<>>

\* the discovery page lists at least one valid entry
SomeValidEntry == \E k \in 1..Len(fetch_page) : ValidLocation(fetch_page[k])

\* the enumerated window of the discovery page: min(k, listed entries)
WindowSize == Min(MAX_LOCATIONS, Len(fetch_page))

\* C5 as stated: with at least one valid entry the ranks of the returned
\* sequence are exactly 1..length.
RanksContiguous ==
    (pc = "fetch_return" /\ SomeValidEntry) =>
        \A k \in 1..Len(locations_list) : locations_list[k].rank = k

\* C5, amended: each rank is the 1-based position of its entry in the upstream
\* list truncated to maxCount, ranks increase strictly in upstream order, and
\* they are the contiguous values 1..length when no entry of the window is
\* skipped.
RanksArePositions ==
    pc = "fetch_return" =>
        /\ \A k \in 1..Len(locations_list) :
              LET r == locations_list[k].rank
              IN /\ r \in 1..WindowSize
                 /\ ValidLocation(fetch_page[r])
                 /\ locations_list[k].name = Strip(fetch_page[r].name)
                 /\ locations_list[k].address = Strip(fetch_page[r].address)
        /\ \A j, k \in 1..Len(locations_list) :
              j < k => locations_list[j].rank < locations_list[k].rank
        /\ (\A r \in 1..WindowSize : ValidLocation(fetch_page[r])) =>
              \A k \in 1..Len(locations_list) : locations_list[k].rank = k

\* a malformed entry precedes a valid one inside the window: the valid one
\* keeps rank 2
RanksWitness ==
    /\ pc = "fetch_return"
    /\ Len(fetch_page) >= 2
    /\ ~ValidLocation(fetch_page[1])
    /\ Len(locations_list) = 1
    /\ locations_list[1].rank = 2

\* C6 as stated: with at least one valid entry the returned sequence has
\* length min(maxCount, listed entries), so it is non-empty.
LengthIsWindow ==
    (pc = "fetch_return" /\ SomeValidEntry) =>
        /\ Len(locations_list) = WindowSize
        /\ locations_list # <<>>

\* C6, amended: the returned sequence has one element per valid entry among
\* the first min(maxCount, listed entries) entries, so its length is at most
\* that minimum, equal to it when none of them is skipped, and it is non-empty
\* exactly when a valid entry lies among them.
LengthIsValidInWindow ==
    pc = "fetch_return" =>
        /\ Len(locations_list) =
              Cardinality({r \in 1..WindowSize : ValidLocation(fetch_page[r])})
        /\ Len(locations_list) <= WindowSize
        /\ (locations_list # <<>>) <=>
              (\E r \in 1..WindowSize : ValidLocation(fetch_page[r]))

\* the page lists more than maxCount entries, a valid one only past the
\* window: the returned sequence is empty
LengthWitness ==
    /\ pc = "fetch_return"
    /\ Len(fetch_page) > MAX_LOCATIONS
    /\ ValidLocation(fetch_page[Len(fetch_page)])
    /\ locations_list = <<>>

\* every payload posted in this cycle, with the category it was posted for
Posted == UNION {{<<c, k>> : k \in 1..Len(sent[c])} : c \in CategoryNames}

\* C7: in every payload the locations are sorted ascending by rank and
\* closest_location is the name of the first of them, null when there is none.
PayloadSortedByRank ==
    \A ck \in Posted :
        LET p == sent[ck[1]][ck[2]]
        IN /\ \A j, k \in 1..Len(p.locations) :
                 j < k => p.locations[j].rank <= p.locations[k].rank
           /\ p.closest_location =
                 (IF p.locations # <<>> THEN p.locations[1].name ELSE None)

\* a payload of two locations whose first is not the first name the probe
\* reported
PayloadSortedWitness ==
    \E ck \in Posted :
        /\ Len(sent[ck[1]][ck[2]].locations) = 2
        /\ sent[ck[1]][ck[2]].locations[1].name # results[ck[1]][1]
        /\ sent[ck[1]][ck[2]].closest_location # results[ck[1]][1]

\* the entry discovery recorded for a name: the last one listed under it
Recorded(name) ==
    locations_list[CHOOSE r \in 1..Len(locations_list) :
                      /\ locations_list[r].name = name
                      /\ \A q \in (r + 1)..Len(locations_list) :
                            locations_list[q].name # name]

\* C8: a payload lists exactly the distinct names of the category's result,
\* once each, with the address and rank discovery recorded for the name, and
\* location_count is the number of entries listed.
PayloadJoinsDirectory ==
    \A ck \in Posted :
        LET p == sent[ck[1]][ck[2]]
            res == results[ck[1]]
        IN /\ ~Interrupted =>
                 {p.locations[k].name : k \in 1..Len(p.locations)} =
                     {res[k] : k \in 1..Len(res)}
           /\ \A j, k \in 1..Len(p.locations) :
                 j # k => p.locations[j].name # p.locations[k].name
           /\ \A k \in 1..Len(p.locations) :
                 /\ \E r \in 1..Len(locations_list) :
                       locations_list[r].name = p.locations[k].name
                 /\ p.locations[k] = Recorded(p.locations[k].name)
           /\ p.location_count = Len(p.locations)

\* the probe reported one name twice and the payload lists it once
PayloadJoinWitness ==
    \E ck \in Posted :
        /\ Len(results[ck[1]]) = 2
        /\ results[ck[1]][1] = results[ck[1]][2]
        /\ sent[ck[1]][ck[2]].location_count = 1

\* the names discovery returned
DiscoveredNames == {locations_list[k].name : k \in 1..Len(locations_list)}

\* C9: the result of a probe is a function of the page it read and of the
\* names discovery returned, the same in every cycle: after initialization no
\* step changes the monitored set, the directory or the discovered list.
CycleIdempotent ==
    /\ [](\A c \in CategoryNames :
             (pc = "gather" /\ task[c] = "returned") =>
                 results[c] = check_category(all_locations[c], DiscoveredNames))
    /\ [][pc \notin {"start", "fetch_listed", "fetch_return", "fetch_except"} =>
             UNCHANGED directory_vars]_vars

\* in the second cycle, after a first cycle with its probes and notifications,
\* a probe reports availability
CycleIdempotentWitness ==
    /\ cycles = 2
    /\ pc = "gather"
    /\ \E c \in CategoryNames : task[c] = "returned" /\ results[c] # <<>>

\* C10 as stated: the call returns true exactly for a response with a success
\* status code (2xx), false otherwise, and never raises.
TrueOnSuccessStatus ==
    post_outcome # NoPost =>
        /\ webhook_ret \in {"True", "False"}
        /\ pc # "crashed"
        /\ (webhook_ret = "True") <=>
              (post_outcome.kind = "response" /\ post_outcome.status \in 200..299)

\* C10, amended: the call returns true exactly for a response with status 200
\* and false for every other status, success codes other than 200 included,
\* for a connection error and for a timeout; it never raises.
TrueOnStatus200 ==
    post_outcome # NoPost =>
        /\ webhook_ret \in {"True", "False"}
        /\ pc # "crashed"
        /\ (webhook_ret = "True") <=>
              (post_outcome.kind = "response" /\ post_outcome.status = 200)

\* the webhook answered 204 and the call returned false
TrueOnStatus200Witness ==
    /\ post_outcome.kind = "response"
    /\ post_outcome.status = 204
    /\ webhook_ret = "False"
    /\ pc = "sleep"

\* the monitoring loop: RUNNING
Running == pc \in {"loop", "gather", "for", "sleep"}

\* C11: from RUNNING no step leads to TERMINATED or to an unhandled error: the
\* only step out of the loop is the external interrupt. After a delivery that
\* failed the for loop goes on with the next category and reaches the sleep,
\* and the next cycle can start.
RunningOnlyLeftByInterrupt ==
    /\ [][Running => (Running' \/ Interrupted')]_vars
    /\ [][(Running /\ Interrupted') => Cancel]_vars
    /\ []((pc = "for" /\ webhook_ret = "False") =>
             ENABLED (NoAvailability \/ Notify \/ EndCycle))
    /\ []((pc = "loop" /\ cycles < MaxCycles) => ENABLED Launch)

\* the delivery for the first category failed, the second category was
\* processed and the cycle reached its sleep
RunningWitness ==
    /\ pc = "sleep"
    /\ Len(sent[KT]) = 1
    /\ post_outcome.kind = "timeout"
    /\ webhook_ret = "False"
    /\ task[PM] = "returned"
    /\ sent[PM] = <<>>

\* C12: every probe that has ended, by return or by failure, has no open
\* session: the session it opened was closed by browser.close() on return and
\* released by the exit of the playwright context manager on failure; a task
\* holds a session only while it runs.
SessionReleased ==
    \A c \in CategoryNames :
        /\ task[c] \in {"returned", "except", "cancelled"} => session[c] # "open"
        /\ task[c] = "returned" => session[c] = "closed"
        /\ session[c] = "open" => task[c] = "open"

\* a probe failed after it had opened its session, and the session is released
SessionReleasedWitness ==
    \E c \in CategoryNames : task[c] = "except" /\ session[c] = "dropped"

\* C13: a notification of a cycle is sent only when every probe of the cycle
\* has ended with its result or its failure collected.
ProbesBeforeNotifications ==
    LET ended == \A c \in CategoryNames : task[c] \in {"returned", "except"}
    IN /\ (\E c \in CategoryNames : sent[c] # <<>>) => ended
       /\ pc \in {"for", "sleep"} => ended
       /\ pc = "gather" => \A c \in CategoryNames : sent[c] = <<>>

\* the first notification of a cycle has been sent and the second category has
\* not been processed yet
ProbesBeforeWitness ==
    /\ pc = "for"
    /\ i = 2
    /\ Len(sent[KT]) = 1
    /\ task[PM] = "returned"

\* the entry's name, were it extracted, is monitored
NamedMonitored(e) == Strip(e.name) \in MONITORED_LOCATIONS

\* the entry is well formed, monitored and shows availability
Candidate(e) ==
    /\ ~e.raises
    /\ e.inner
    /\ e.name_div
    /\ NamedMonitored(e)
    /\ e.marker # "visible"

\* the names a probe reported
ReportedNames(c) == {results[c][k] : k \in 1..Len(results[c])}

\* the entries of the category page the probe looks at: the first
\* MAX_LOCATIONS listed
Window(c) == 1..Min(MAX_LOCATIONS, Len(all_locations[c]))

\* C14 as stated: the bound counts monitored entries only, so a monitored entry
\* that shows availability is reported as long as at most MAX_LOCATIONS
\* monitored entries are listed up to it, however many others precede it.
BoundCountsMonitoredOnly ==
    \A c \in CategoryNames :
        (pc = "gather" /\ task[c] = "returned") =>
            \A k \in 1..Len(all_locations[c]) :
                (/\ Candidate(all_locations[c][k])
                 /\ Cardinality({j \in 1..k : NamedMonitored(all_locations[c][j])})
                       <= MAX_LOCATIONS)
                    => Strip(all_locations[c][k].name) \in ReportedNames(c)

\* C14, amended: the bound counts every listed entry: the probe looks at the
\* first MAX_LOCATIONS listed entries only, monitored or not, and reports
\* exactly the monitored entries among them that show availability; a
\* monitored entry listed after them is not looked at.
BoundCountsEveryEntry ==
    \A c \in CategoryNames :
        (pc = "gather" /\ task[c] = "returned") =>
            /\ ReportedNames(c) =
                  {Strip(all_locations[c][k].name) :
                      k \in {j \in Window(c) : Candidate(all_locations[c][j])}}
            /\ Len(results[c]) =
                  Cardinality({j \in Window(c) : Candidate(all_locations[c][j])})
            /\ Len(results[c]) <= MAX_LOCATIONS

\* two entries that are not monitored precede a monitored one that shows
\* availability: nothing is reported
BoundWitness ==
    \E c \in CategoryNames :
        /\ pc = "gather"
        /\ task[c] = "returned"
        /\ Len(all_locations[c]) = MAX_LOCATIONS + 1
        /\ \A k \in 1..MAX_LOCATIONS : ~NamedMonitored(all_locations[c][k])
        /\ Candidate(all_locations[c][MAX_LOCATIONS + 1])
        /\ results[c] = <<>>

\* the entry's name is extracted: lines 231-239 pass
Extracted(e) == ~e.raises /\ e.inner /\ e.name_div

\* how many times a name occurs in a probe's result
Occurrences(c, n) == Cardinality({k \in 1..Len(results[c]) : results[c][k] = n})

\* C15: among the entries a probe looks at, a monitored entry is reported
\* exactly when it carries no visible marker: once for each entry of that name
\* with no marker or with a marker that is not visible, never for an entry
\* whose marker is visible.
MarkerDecides ==
    \A c \in CategoryNames :
        (pc = "gather" /\ task[c] = "returned") =>
            \A n \in MONITORED_LOCATIONS :
                Occurrences(c, n) =
                    Cardinality({k \in Window(c) :
                        /\ Extracted(all_locations[c][k])
                        /\ Strip(all_locations[c][k].name) = n
                        /\ all_locations[c][k].marker \in {"absent", "hidden"}})

\* a monitored entry with a hidden marker is reported, a monitored entry with
\* a visible marker is not
MarkerWitness ==
    \E c \in CategoryNames :
        /\ pc = "gather"
        /\ task[c] = "returned"
        /\ Len(all_locations[c]) = 2
        /\ all_locations[c][1].marker = "visible"
        /\ NamedMonitored(all_locations[c][1])
        /\ all_locations[c][2].marker = "hidden"
        /\ results[c] = <<Strip(all_locations[c][2].name)>>

\* C16: a failure on one listed entry skips that entry only: discovery returns
\* every valid entry of its window with the rank of its position, and a probe
\* reports every monitored entry of its window that shows availability,
\* whatever the other entries of the window do.
EntryFailureSkipsOneEntry ==
    /\ pc = "fetch_return" =>
          \A r \in 1..WindowSize :
              ValidLocation(fetch_page[r]) =>
                  \E k \in 1..Len(locations_list) :
                      /\ locations_list[k].rank = r
                      /\ locations_list[k].name = Strip(fetch_page[r].name)
    /\ \A c \in CategoryNames :
          (pc = "gather" /\ task[c] = "returned") =>
              \A k \in Window(c) :
                  Candidate(all_locations[c][k]) =>
                      Strip(all_locations[c][k].name) \in ReportedNames(c)

\* discovery skipped its first entry and kept the second; a probe met a
\* raising entry and reported the entry after it
EntryFailureWitness ==
    /\ Len(locations_list) = 1
    /\ locations_list[1].rank = 2
    /\ \E c \in CategoryNames :
          /\ pc = "gather"
          /\ task[c] = "returned"
          /\ Len(all_locations[c]) = 2
          /\ all_locations[c][1].raises
          /\ results[c] # <<>>

\* C17: while no interrupt arrives, every cycle is followed by the sleep and
\* every sleep by another cycle, so the cycles never end: a cycle is under way
\* again and again, and so is the sleep.
CyclesForEver ==
    /\ []<>(pc = "gather" \/ Interrupted)
    /\ []<>(pc = "sleep" \/ Interrupted)

\* a second cycle is under way, after a first one that found availability
CyclesWitness ==
    /\ pc = "gather"
    /\ cycles = 2
    /\ found[KT] = 1

\* C18: an interrupt that arrives during the sleep or during a cycle leads to
\* the end of the process: from the sleep and from a notification at once,
\* from a cycle whose probes are in flight once every probe has ended; and
\* when the process has ended no probe holds an open session.
GracefulShutdown ==
    /\ Interrupted ~> (pc = "stopped")
    /\ [](pc = "stopped" => \A c \in CategoryNames : session[c] # "open")

\* the process has ended after an interrupt that cancelled a probe whose
\* session was open
GracefulShutdownWitness ==
    /\ pc = "stopped"
    /\ \E c \in CategoryNames : task[c] = "cancelled" /\ session[c] = "dropped"

\* C19: once the directory is set up, every monitored name is a key of
\* location_info and there are at most MAX_LOCATIONS monitored names; so every
\* name a probe returns is a key of location_info, and the lookups of lines
\* 315 and 319 find their entry.
MonitoredWithinDirectory ==
    /\ MONITORED_LOCATIONS \subseteq DOMAIN location_info
    /\ Cardinality(MONITORED_LOCATIONS) <= MAX_LOCATIONS
    /\ \A c \in CategoryNames :
          \A k \in 1..Len(results[c]) : results[c][k] \in DOMAIN location_info
    /\ pc # "crashed"

\* as many monitored names as the bound allows, every one of them returned by
\* a probe and looked up for a payload
MonitoredWitness ==
    /\ Cardinality(MONITORED_LOCATIONS) = MAX_LOCATIONS
    /\ \E c \in CategoryNames :
          /\ ReportedNames(c) = MONITORED_LOCATIONS
          /\ Len(sent[c]) = 1
          /\ Len(sent[c][1].locations) = MAX_LOCATIONS

\* C20: whether a category is notified in a cycle depends on that cycle's
\* result alone: after any number of cycles, a category has been notified once
\* for each cycle whose probe returned availability for it, whatever the
\* earlier cycles found or sent.
NotifiedEveryCycle ==
    \A c \in CategoryNames :
        /\ notified[c] <= found[c]
        /\ found[c] <= notified[c] + 1
        /\ found[c] <= cycles
        /\ Processed(c) => notified[c] = found[c]

\* availability lasted two cycles for one category, which was notified twice,
\* while the other was notified in the second cycle only
NotifiedWitness ==
    /\ pc = "sleep"
    /\ cycles = 2
    /\ found[KT] = 2
    /\ notified[KT] = 2
    /\ notified[PM] = 1
    /\ sent[PM] # <<>>

====
